---------------------------- MODULE Spec2Model ----------------------------
(***************************************************************************)
(* A model of dedupy (src/src/lib.rs, src/src/main.rs).                    *)
(*                                                                         *)
(* Report::parse (lib.rs) is modelled step by step over three files on     *)
(* disk: the fingerprint store "memory", the sku store "sku_memory" and    *)
(* the artifact "output.xlsx".  Texts (amounts, quantities) are sequences  *)
(* of one-character strings so that parsing and formatting are computed    *)
(* the way the code computes them.  parse_report (main.rs) and the unit    *)
(* cents of both files are modelled on their own, further down.            *)
(***************************************************************************)
EXTENDS Integers, Sequences, FiniteSets, TLC

(***************************************************************************)
(* Bounds of the model.                                                    *)
(***************************************************************************)
\* Longest amount text enumerated for handle_punct / cents_to_dollars.
MaxLen == 4
\* Most data rows in one input report.
MaxRows == 2
\* Most runs of Report::parse in a behaviour that keeps the ledger.
MaxRuns == 3
\* Largest everyday quantity tried when unit cents are computed.
MaxQty == 3

(***************************************************************************)
(* Texts.                                                                  *)
(***************************************************************************)
Digits == {"0", "1", "3", "4", "5"}
Chars == Digits \cup {".", ",", "-"}

DigitVal(c) ==
    CASE c = "0" -> 0 [] c = "1" -> 1 [] c = "2" -> 2 [] c = "3" -> 3
      [] c = "4" -> 4 [] c = "5" -> 5 [] c = "6" -> 6 [] c = "7" -> 7
      [] c = "8" -> 8 [] c = "9" -> 9

DigitChar(d) ==
    CASE d = 0 -> "0" [] d = 1 -> "1" [] d = 2 -> "2" [] d = 3 -> "3"
      [] d = 4 -> "4" [] d = 5 -> "5" [] d = 6 -> "6" [] d = 7 -> "7"
      [] d = 8 -> "8" [] d = 9 -> "9"

AllDigits == {"0", "1", "2", "3", "4", "5", "6", "7", "8", "9"}

\* Result<i64, eyre::Error>
Ok(v) == [ok |-> TRUE, val |-> v]
Err == [ok |-> FALSE, val |-> 0]

\* The value of a non-empty sequence of ASCII digits.
RECURSIVE DigitsValue(_)
DigitsValue(s) ==
    IF s = <<>> THEN 0
    ELSE 10 * DigitsValue(SubSeq(s, 1, Len(s) - 1)) + DigitVal(s[Len(s)])

\* str::parse::<i64>: an optional sign, then one or more ASCII digits.
ParseI64(s) ==
    LET body == IF s # <<>> /\ s[1] \in {"-", "+"} THEN Tail(s) ELSE s
        neg == s # <<>> /\ s[1] = "-"
    IN  IF body = <<>> \/ \E i \in DOMAIN body : body[i] \notin AllDigits
        THEN Err
        ELSE Ok(IF neg THEN 0 - DigitsValue(body) ELSE DigitsValue(body))

\* str::replace(['.', ','], ""): every '.' and ',' removed.
RECURSIVE StripPunct(_)
StripPunct(s) ==
    IF s = <<>> THEN <<>>
    ELSE IF s[1] \in {".", ","} THEN StripPunct(Tail(s))
         ELSE <<s[1]>> \o StripPunct(Tail(s))

\* str::split('.'): the pieces between the dots, in order.
RECURSIVE SplitDot(_)
SplitDot(s) ==
    IF \A i \in DOMAIN s : s[i] # "." THEN <<s>>
    ELSE LET p == CHOOSE i \in DOMAIN s :
                      s[i] = "." /\ \A j \in 1..(i - 1) : s[j] # "."
         IN  <<SubSeq(s, 1, p - 1)>> \o SplitDot(SubSeq(s, p + 1, Len(s)))

\* A plausible slip: the decimals are read after the last '.', not from
\* the second piece of the split.
handle_punct_lastdot(total) ==
    LET parts == SplitDot(total)
        int == ParseI64(StripPunct(total))
    IN  IF Len(parts) >= 2
        THEN LET dec == parts[Len(parts)]
             IN  IF Len(dec) \notin {1, 2} THEN Err
                 ELSE IF ~int.ok THEN Err
                 ELSE Ok(int.val * (IF Len(dec) = 1 THEN 10 ELSE 1))
        ELSE IF ~int.ok THEN Err ELSE Ok(int.val * 100)

\* fn handle_punct(total: &str) -> eyre::Result<i64>
handle_punct(total) ==
    LET parts == SplitDot(total)
        int == ParseI64(StripPunct(total))
    IN  IF Len(parts) >= 2
        THEN LET dec == parts[2]
             IN  IF Len(dec) \notin {1, 2} THEN Err
                 ELSE IF ~int.ok THEN Err
                 ELSE Ok(int.val * (IF Len(dec) = 1 THEN 10 ELSE 1))
        ELSE IF ~int.ok THEN Err ELSE Ok(int.val * 100)

\* The decimal digits of a natural number, most significant first.
RECURSIVE NatDigits(_)
NatDigits(n) ==
    IF n < 10 THEN <<DigitChar(n)>>
    ELSE NatDigits(n \div 10) \o <<DigitChar(n % 10)>>

Abs(n) == IF n < 0 THEN 0 - n ELSE n

\* A plausible slip: the cents are appended without the leading zero of a
\* one-digit fraction (5 cents rendered "0.5").
cents_to_dollars_nopad(cents) ==
    LET a == Abs(cents)
        frac == a % 100
        sign == IF cents < 0 THEN <<"-">> ELSE <<>>
    IN  sign \o NatDigits(a \div 100) \o <<".">> \o NatDigits(frac)

\* fn cents_to_dollars: (cents as f64) / 100.0 rendered by ryu, the shortest
\* decimal that reads back as the same f64.  For |cents| below 2^46 * 100
\* that is the integer part, a '.', and the fraction with its trailing zero
\* dropped ("1.0", "0.3", "0.05", "-3.5"); a zero value carries no sign here
\* because an i64 has no negative zero.
cents_to_dollars(cents) ==
    LET a == Abs(cents)
        frac == a % 100
        sign == IF cents < 0 THEN <<"-">> ELSE <<>>
        fd == IF frac % 10 = 0 THEN <<DigitChar(frac \div 10)>>
              ELSE <<DigitChar(frac \div 10), DigitChar(frac % 10)>>
    IN  sign \o NatDigits(a \div 100) \o <<".">> \o fd


(***************************************************************************)
(* Input rows.  A report is a header row followed by data rows; the rows   *)
(* below are the raw records the model draws reports from.  Fields are the *)
(* raw csv fields; total and quantity are texts.                           *)
(***************************************************************************)
RowIds == 1..6

RowData(r) ==
    CASE r = 1 -> [kind |-> "Order", sku |-> "A1", total |-> <<"3", ".", "0", "0">>,
                   quantity |-> <<"3">>, description |-> "Widget"]
      [] r = 2 -> [kind |-> "Order", sku |-> "A1", total |-> <<"5", ".", "0", "0">>,
                   quantity |-> <<"5">>, description |-> "Widget"]
      [] r = 3 -> [kind |-> "Order", sku |-> "", total |-> <<"1", ".", "5", "0">>,
                   quantity |-> <<>>, description |-> "Widget"]
      [] r = 4 -> [kind |-> "Order", sku |-> "", total |-> <<"-", "5", ".", "0", "0">>,
                   quantity |-> <<>>, description |-> "Widget"]
      [] r = 5 -> [kind |-> "Refund", sku |-> "A1", total |-> <<"2", ".", "5", "0">>,
                   quantity |-> <<>>, description |-> "Gadget"]
      [] r = 6 -> [kind |-> "Order", sku |-> "A1", total |-> <<"0", ".", "3", "0", "0">>,
                   quantity |-> <<"1">>, description |-> "Widget"]
      [] r = 7 -> [kind |-> "Order", sku |-> "A1", total |-> <<"3", ".", "0", "0">>,
                   quantity |-> <<"-">>, description |-> "Widget"]

\* The rows parse_report is tried on: the rows above and row 7, whose
\* quantity is no number.
BucketRowIds == RowIds \cup {7}

\* The date/time field of a row (main.rs reads it, lib.rs does not).
DateOf(r) ==
    CASE r = 1 -> "Mar 7" [] r = 2 -> "Mar 6" [] r = 3 -> "Mar 5" [] r = 4 -> "Mar 4"
      [] r = 5 -> "Mar 3" [] r = 6 -> "Mar 2" [] r = 7 -> "Mar 1"

\* seahash::hash of the record's bytes.  Equal rows have equal fingerprints;
\* the rows of the model are pairwise different and so are their hashes.
Fingerprint(r) == r

\* Byte-wise order of the strings the rows use (String's Ord).
StrRank(s) ==
    CASE s = "" -> 0 [] s = "A1" -> 1 [] s = "FBATF" -> 2 [] s = "Gadget" -> 3
      [] s = "Order" -> 4 [] s = "Refund" -> 5 [] s = "Widget" -> 6

\* The ends of the machine integers.  TLC's integers have 32 bits, so the
\* i64 of the code stands here with 31: what matters is that the least
\* value has no negation among them.
I64Min == 0 - 2^30
I64Max == 2^30 - 1

\* Integer division of the machine: the quotient truncated toward zero.
TruncDiv(a, b) ==
    LET q == Abs(a) \div Abs(b)
    IN  IF (a < 0) = (b < 0) THEN q ELSE 0 - q

\* i64::checked_div(..).unwrap_or(total): checked_div is None when the
\* divisor is 0 and when the division overflows (i64::MIN / -1), and total
\* stands in for a None; otherwise the quotient truncated toward zero.
CheckedDivOr(total, quantity) ==
    IF quantity = 0 \/ (total = I64Min /\ quantity = 0 - 1) THEN total
    ELSE TruncDiv(total, quantity)

\* RefSale::unit_cents of main.rs, from the parsed total and quantity: total
\* for a zero quantity, else total / quantity, and the `/` of i64 panics
\* when the division overflows.
unit_cents(total, quantity) ==
    IF quantity = 0 THEN [panic |-> FALSE, val |-> total]
    ELSE IF total = I64Min /\ quantity = 0 - 1 THEN [panic |-> TRUE, val |-> 0]
    ELSE [panic |-> FALSE, val |-> TruncDiv(total, quantity)]

\* fn deserialize_quantity: an empty field is 0, anything else is parsed.
deserialize_quantity(s) == IF s = <<>> THEN Ok(0) ELSE ParseI64(s)

\* impl TryFrom<RefSale> for Adjustment
AdjustmentFrom(raw) == [kind |-> raw.kind, description |-> raw.description]

\* impl TryFrom<RefSale> for WithSku (total already known to parse)
WithSkuFrom(raw, total, quantity) ==
    [kind |-> raw.kind, sku |-> raw.sku,
     cents |-> CheckedDivOr(total, quantity), description |-> raw.description]

\* A plausible slip: an amount that does not parse is taken for 0 cents
\* and the row is decoded all the same.
Decode_lenient(r) ==
    LET raw == RowData(r)
        qt == deserialize_quantity(raw.quantity)
        cents == IF handle_punct(raw.total).ok THEN handle_punct(raw.total) ELSE Ok(0)
    IN  IF ~qt.ok THEN [ok |-> FALSE]
        ELSE IF raw.sku = ""
             THEN [ok |-> TRUE, variant |-> "Adjustment", key |-> AdjustmentFrom(raw),
                   qt |-> qt.val, cents |-> cents.val]
             ELSE [ok |-> TRUE, variant |-> "WithSku",
                   key |-> WithSkuFrom(raw, cents.val, qt.val),
                   qt |-> qt.val, cents |-> cents.val]

\* A plausible slip: the variant is chosen by the quantity field, a row
\* without a quantity being taken for an adjustment.
Decode_byquantity(r) ==
    LET raw == RowData(r)
        qt == deserialize_quantity(raw.quantity)
        cents == handle_punct(raw.total)
    IN  IF ~qt.ok \/ ~cents.ok THEN [ok |-> FALSE]
        ELSE IF raw.quantity = <<>>
             THEN [ok |-> TRUE, variant |-> "Adjustment", key |-> AdjustmentFrom(raw),
                   qt |-> qt.val, cents |-> cents.val]
             ELSE [ok |-> TRUE, variant |-> "WithSku",
                   key |-> WithSkuFrom(raw, cents.val, qt.val),
                   qt |-> qt.val, cents |-> cents.val]

\* What one pass of the loop body computes for a row that is decoded:
\* r.deserialize::<RefSale>()?, handle_punct(sale.total)?, Trx::try_from(sale)?.
\* An empty sku field deserializes to None, which selects the Adjustment arm.
Decode(r) ==
    LET raw == RowData(r)
        qt == deserialize_quantity(raw.quantity)
        cents == handle_punct(raw.total)
    IN  IF ~qt.ok \/ ~cents.ok THEN [ok |-> FALSE]
        ELSE IF raw.sku = ""
             THEN [ok |-> TRUE, variant |-> "Adjustment", key |-> AdjustmentFrom(raw),
                   qt |-> qt.val, cents |-> cents.val]
             ELSE [ok |-> TRUE, variant |-> "WithSku",
                   key |-> WithSkuFrom(raw, cents.val, qt.val),
                   qt |-> qt.val, cents |-> cents.val]

\* A plausible slip: the sign test of an adjustment also sends 0 to -1.
SaleNew_zeroneg(variant, k, i) ==
    IF variant = "Adjustment"
    THEN [kind |-> k.kind, sku |-> "FBATF", description |-> k.description,
          quantity |-> IF i <= 0 THEN 0 - 1 ELSE 1, cents |-> i]
    ELSE [kind |-> k.kind, sku |-> k.sku, description |-> k.description,
          quantity |-> i, cents |-> k.cents * i]

\* A plausible slip: the total of an identified row is the unit price.
SaleNew_unit(variant, k, i) ==
    IF variant = "Adjustment"
    THEN [kind |-> k.kind, sku |-> "FBATF", description |-> k.description,
          quantity |-> IF i < 0 THEN 0 - 1 ELSE 1, cents |-> i]
    ELSE [kind |-> k.kind, sku |-> k.sku, description |-> k.description,
          quantity |-> i, cents |-> k.cents]

\* fn Sale::new(t: Trx, i: i64)
SaleNew(variant, k, i) ==
    IF variant = "Adjustment"
    THEN [kind |-> k.kind, sku |-> "FBATF", description |-> k.description,
          quantity |-> IF i < 0 THEN 0 - 1 ELSE 1, cents |-> i]
    ELSE [kind |-> k.kind, sku |-> k.sku, description |-> k.description,
          quantity |-> i, cents |-> k.cents * i]

\* adjustmut_map.entry(a).and_modify(|v| *v += cents).or_insert(qt)
FoldAdjustment(m, k, cents, qt) ==
    IF k \in DOMAIN m THEN [m EXCEPT ![k] = @ + cents] ELSE (k :> qt) @@ m

\* with_sku_map.entry(s).and_modify(|v| *v += qt).or_insert(qt)
FoldWithSku(m, k, qt) ==
    IF k \in DOMAIN m THEN [m EXCEPT ![k] = @ + qt] ELSE (k :> qt) @@ m

\* A plausible slip: the key of the sort is (description, kind).
KeyLeq_description(a, b) ==
    \/ StrRank(a.description) < StrRank(b.description)
    \/ /\ a.description = b.description
       /\ StrRank(a.kind) <= StrRank(b.kind)

\* The key of buffer.sort_unstable_by_key: (kind, description), compared as
\* a tuple.
KeyLeq(a, b) ==
    \/ StrRank(a.kind) < StrRank(b.kind)
    \/ /\ a.kind = b.kind
       /\ StrRank(a.description) <= StrRank(b.description)

SortedByKey(s) == \A i \in 1..(Len(s) - 1) : KeyLeq(s[i], s[i + 1])

\* The buffers Report::parse can hand to the workbook: one Sale per entry
\* of either map, drained in the maps' iteration order (any order) and then
\* sorted by key with an unstable sort, which settles nothing among equal
\* keys.
Buffers(am, wm) ==
    LET ents == {<<"Adjustment", k>> : k \in DOMAIN am}
                    \cup {<<"WithSku", k>> : k \in DOMAIN wm}
        n == Cardinality(ents)
        val(e) == IF e[1] = "Adjustment" THEN am[e[2]] ELSE wm[e[2]]
        orders == {p \in [1..n -> ents] : \A i, j \in 1..n : p[i] = p[j] => i = j}
        sales(p) == [i \in 1..n |-> SaleNew(p[i][1], p[i][2], val(p[i]))]
    IN  {sales(p) : p \in {q \in orders : SortedByKey(sales(q))}}

(***************************************************************************)
(* The stores.  Memory::write serializes the set one u64 per line in the   *)
(* set's iteration order; Memory::new reads the file with a csv reader     *)
(* left at its default has_headers(true), which takes the first line for a *)
(* header row and does not return it.  A store is the set of lines and the *)
(* line written first (none for an empty or absent file), and whether a    *)
(* line after the first cannot be read as a u64 (bad).                     *)
(***************************************************************************)
EmptyStore == [set |-> {}, first |-> {}, bad |-> FALSE]

\* Memory::new: the lines of the file but the first.  No file, and a file
\* with a record that does not deserialize, make the Result an Err, and
\* unwrap_or_default turns every Err into the empty set.
MemoryNew(st) == IF st.bad THEN {} ELSE st.set \ st.first

\* Memory::write: the files that writing set s can leave.
MemoryWrite(s) ==
    IF s = {} THEN {EmptyStore}
    ELSE {[set |-> s, first |-> {f}, bad |-> FALSE] : f \in s}

\* Memory::memorize returns HashSet::insert: true when the hash is new.
Memorize(set, h) == [set |-> set \cup {h}, inserted |-> h \notin set]

(***************************************************************************)
(* State.                                                                  *)
(***************************************************************************)
VARIABLES
    store,          \* the file "memory"
    skuStore,       \* the file "sku_memory"
    artifact,       \* the rows this run saved to "output.xlsx"
    pc,             \* where Report::parse stands: idle (no process), rows,
                    \* write_sku, save, done (returned or interrupted)
    result,         \* how the run ended: none, running, ok, err, crash
    input,          \* the report being parsed: [hdr, rows]
    idx,            \* the next data row of the loop
    recmem,         \* recmem.set
    skumem,         \* skumem.set
    adjustmut_map,  \* HashMap<Adjustment, Cents>
    with_sku_map,   \* HashMap<WithSku, Cents>
    ledger,         \* whether this behaviour keeps runs and emitted
    runs,           \* history (kept with the ledger): runs started so far
    startStore,     \* history: "memory" as the run found it
    startSku,       \* history: "sku_memory" as the run found it
    examined,       \* history: per data row met, [row, known, folded]
    recWrites,      \* history: writes of "memory" in this run
    outWritten,     \* history: output.xlsx saved by this run
    repeat,         \* history: the run parses again the report of the run
                    \* before it, which ended ok
    emitted,        \* history (kept with the ledger): fingerprints of the rows
                    \* folded into an artifact that was saved
    twin,           \* comparison run: [on, out]
    text,           \* amount text under handle_punct
    stage,          \* position of the amount pipeline
    parsed,         \* handle_punct(text)
    dollars,        \* cents_to_dollars of the parsed cents
    reparsed,       \* handle_punct(dollars)
    unitIn,         \* a decoded row's [total, quantity], both i64
    unitStage,      \* position of the unit-cents computation
    unitLib,        \* unit cents as WithSku::try_from computes them (lib.rs)
    unitMain,       \* unit cents as RefSale::unit_cents computes them (main.rs)
    report,         \* the report parse_report reads: [hdr, rows]
    header,         \* parse_report's header: TRUE once it is Some
    pos,            \* the next data row of parse_report's loop
    bucket,         \* parse_report's Bucket: [sales, oldest, newest, seen]
    ppc,            \* where parse_report stands: off, loop, done
    presult,        \* how parse_report ended: none, running, ok, err,
                    \* assert (a sanity assertion failed), panic (an unwrap)
    tsv,            \* the rows written to dedupy-{name}.tsv
    log             \* the records appended to memory.csv

runVars == <<pc, result, input, idx, recmem, skumem, adjustmut_map, with_sku_map,
             runs, startStore, startSku, examined, recWrites, outWritten, repeat>>
diskVars == <<store, skuStore, artifact>>
amountVars == <<text, stage, parsed, dollars, reparsed>>
unitVars == <<unitIn, unitStage, unitLib, unitMain>>
bucketVars == <<report, header, pos, bucket, ppc, presult, tsv, log>>
sideVars == <<unitVars, bucketVars>>
vars == <<diskVars, runVars, ledger, emitted, twin, amountVars, sideVars>>

\* The reports of the model: no header row at all (nothing follows the
\* preamble), or a header and up to MaxRows data rows.
RowSeqs == UNION {[1..n -> RowIds] : n \in 0..MaxRows}
Inputs == {[hdr |-> FALSE, rows |-> <<>>]}
              \cup {[hdr |-> TRUE, rows |-> rs] : rs \in RowSeqs}

EmptyMap == <<>>

InitFiles ==
    /\ store = EmptyStore
    /\ skuStore = EmptyStore
    /\ artifact = <<>>
    /\ pc = "idle"
    /\ result = "none"
    /\ input = [hdr |-> FALSE, rows |-> <<>>]
    /\ idx = 1
    /\ recmem = {}
    /\ skumem = {}
    /\ adjustmut_map = EmptyMap
    /\ with_sku_map = EmptyMap
    /\ runs = 0
    /\ startStore = EmptyStore
    /\ startSku = EmptyStore
    /\ examined = <<>>
    /\ recWrites = 0
    /\ outWritten = FALSE
    /\ repeat = FALSE
    /\ emitted = {}
    /\ twin = [on |-> FALSE, out |-> <<>>]

InitRun == InitFiles /\ ledger = FALSE

InitAmountOff ==
    /\ text = <<>>
    /\ stage = "off"
    /\ parsed = Err
    /\ dollars = <<>>
    /\ reparsed = Err

\* None and Some(date) of an Option<String> holding a date/time.
None == "None"

EmptyBucket == [sales |-> <<>>, oldest |-> None, newest |-> None, seen |-> FALSE]

InitUnitOff ==
    /\ unitIn = [total |-> 0, quantity |-> 0]
    /\ unitStage = "off"
    /\ unitLib = 0
    /\ unitMain = [panic |-> FALSE, val |-> 0]

InitBucketOff ==
    /\ report = [hdr |-> FALSE, rows |-> <<>>]
    /\ header = FALSE
    /\ pos = 1
    /\ bucket = EmptyBucket
    /\ ppc = "off"
    /\ presult = "none"
    /\ tsv = <<>>
    /\ log = <<>>

Init == InitRun /\ InitAmountOff /\ InitUnitOff /\ InitBucketOff

(***************************************************************************)
(* Report::parse, lib.rs 136-201.                                          *)
(***************************************************************************)
\* Lines 141-158: the report is read, the maps are created, both memories
\* are loaded and the header row is taken.  The run starts from stores st
\* and sk.  Nothing reads output.xlsx, so the model follows its rows only
\* from the start of the run that may write it.
Begin(inp, st, sk) ==
    /\ input' = inp
    /\ idx' = 1
    /\ recmem' = MemoryNew(st)
    /\ skumem' = MemoryNew(sk)
    /\ adjustmut_map' = EmptyMap
    /\ with_sku_map' = EmptyMap
    /\ artifact' = <<>>
    /\ ledger => runs < MaxRuns
    /\ runs' = IF ledger THEN runs + 1 ELSE runs
    /\ startStore' = st
    /\ startSku' = sk
    /\ examined' = <<>>
    /\ recWrites' = 0
    /\ outWritten' = FALSE
    /\ pc' = "rows"
    /\ result' = "running"

StartRun ==
    /\ pc = "idle"
    /\ ~twin.on
    /\ \E inp \in Inputs : Begin(inp, store, skuStore)
    /\ repeat' = FALSE
    /\ UNCHANGED <<store, skuStore, ledger, emitted, twin, amountVars, sideVars>>

\* The report of a run that ended ok is parsed once more, by the next
\* process.
StartAgain ==
    /\ pc = "done"
    /\ result = "ok"
    /\ ~twin.on
    /\ Begin(input, store, skuStore)
    /\ repeat' = TRUE
    /\ UNCHANGED <<store, skuStore, ledger, emitted, twin, amountVars, sideVars>>

\* Lines 159-176, one pass of the loop.
ProcessRow ==
    /\ pc = "rows"
    /\ idx <= Len(input.rows)
    /\ LET r == input.rows[idx]
           m == Memorize(recmem, Fingerprint(r))
           known == Fingerprint(r) \in recmem
           d == Decode(r)
       IN  /\ recmem' = m.set
           /\ IF m.inserted
              THEN \* the condition !recmem.memorize(..) is false
                   /\ examined' = Append(examined,
                          [row |-> r, known |-> known, folded |-> FALSE])
                   /\ idx' = idx + 1
                   /\ UNCHANGED <<pc, result, skumem, adjustmut_map, with_sku_map>>
              ELSE IF ~d.ok
              THEN \* a `?` of the body returns the error
                   /\ examined' = Append(examined,
                          [row |-> r, known |-> known, folded |-> FALSE])
                   /\ pc' = "done"
                   /\ result' = "err"
                   /\ UNCHANGED <<idx, skumem, adjustmut_map, with_sku_map>>
              ELSE /\ examined' = Append(examined,
                          [row |-> r, known |-> known, folded |-> TRUE])
                   /\ idx' = idx + 1
                   /\ IF d.variant = "Adjustment"
                      THEN /\ adjustmut_map' =
                                 FoldAdjustment(adjustmut_map, d.key, d.cents, d.qt)
                           /\ UNCHANGED <<skumem, with_sku_map>>
                      ELSE /\ skumem' = Memorize(skumem, d.key.sku).set
                           /\ with_sku_map' = FoldWithSku(with_sku_map, d.key, d.qt)
                           /\ UNCHANGED adjustmut_map
                   /\ UNCHANGED <<pc, result>>
    /\ UNCHANGED <<diskVars, input, runs, startStore, startSku, recWrites,
                   outWritten, repeat, ledger, emitted, twin, amountVars, sideVars>>

\* Line 178: recmem.write()?
WriteRecMem ==
    /\ pc = "rows"
    /\ idx > Len(input.rows)
    /\ store' \in MemoryWrite(recmem)
    /\ recWrites' = recWrites + 1
    /\ pc' = "write_sku"
    /\ UNCHANGED <<skuStore, artifact, result, input, idx, recmem, skumem,
                   adjustmut_map, with_sku_map, runs, startStore, startSku,
                   examined, outWritten, repeat, ledger, emitted, twin, amountVars, sideVars>>

\* Line 179: skumem.write()?
WriteSkuMem ==
    /\ pc = "write_sku"
    /\ skuStore' \in MemoryWrite(skumem)
    /\ pc' = "save"
    /\ UNCHANGED <<store, artifact, result, input, idx, recmem, skumem,
                   adjustmut_map, with_sku_map, runs, startStore, startSku,
                   examined, recWrites, outWritten, repeat, ledger, emitted,
                   twin, amountVars, sideVars>>

FoldedRows == {examined[i].row : i \in {j \in DOMAIN examined : examined[j].folded}}

\* Lines 181-200: both maps are drained into the buffer, it is sorted, and
\* the workbook is filled and saved.
Save ==
    /\ pc = "save"
    /\ artifact' \in Buffers(adjustmut_map, with_sku_map)
    /\ outWritten' = TRUE
    /\ emitted' = IF ledger THEN emitted \cup {Fingerprint(r) : r \in FoldedRows}
                   ELSE emitted
    /\ pc' = "done"
    /\ result' = "ok"
    /\ UNCHANGED <<store, skuStore, input, idx, recmem, skumem, adjustmut_map,
                   with_sku_map, runs, startStore, startSku, examined,
                   recWrites, repeat, ledger, twin, amountVars, sideVars>>

\* Lines 181-199 when serializing or wb.save fails: the error is returned
\* and no workbook is written.
SaveFails ==
    /\ pc = "save"
    /\ pc' = "done"
    /\ result' = "err"
    /\ UNCHANGED <<diskVars, input, idx, recmem, skumem, adjustmut_map,
                   with_sku_map, runs, startStore, startSku, examined,
                   recWrites, outWritten, repeat, ledger, emitted, twin, amountVars, sideVars>>

\* The process is interrupted between two steps of a run.
Interrupt ==
    /\ pc \in {"rows", "write_sku", "save"}
    /\ pc' = "done"
    /\ result' = "crash"
    /\ UNCHANGED <<diskVars, input, idx, recmem, skumem, adjustmut_map,
                   with_sku_map, runs, startStore, startSku, examined,
                   recWrites, outWritten, repeat, ledger, emitted, twin, amountVars, sideVars>>

\* The process is gone and with it everything but the files.
Exit ==
    /\ pc = "done"
    /\ pc' = "idle"
    /\ result' = "none"
    /\ input' = [hdr |-> FALSE, rows |-> <<>>]
    /\ idx' = 1
    /\ recmem' = {}
    /\ skumem' = {}
    /\ adjustmut_map' = EmptyMap
    /\ with_sku_map' = EmptyMap
    /\ artifact' = <<>>
    /\ startStore' = EmptyStore
    /\ startSku' = EmptyStore
    /\ examined' = <<>>
    /\ recWrites' = 0
    /\ outWritten' = FALSE
    /\ repeat' = FALSE
    /\ UNCHANGED <<store, skuStore, runs, ledger, emitted, twin, amountVars, sideVars>>

Next ==
    \/ StartRun
    \/ StartAgain
    \/ ProcessRow
    \/ WriteRecMem
    \/ WriteSkuMem
    \/ Save
    \/ SaveFails
    \/ Interrupt
    \/ Exit

Spec == Init /\ [][Next]_vars

\* The same runs with the ledger kept, MaxRuns of them.
InitLedger ==
    InitFiles /\ ledger = TRUE /\ InitAmountOff /\ InitUnitOff /\ InitBucketOff

SpecLedger == InitLedger /\ [][Next]_vars

(***************************************************************************)
(* The stores are files anyone can touch between two runs: here a store    *)
(* that holds fingerprints gets a line that is no u64.                     *)
(***************************************************************************)
Damaged(st) == [st EXCEPT !.bad = TRUE]

Damage ==
    /\ pc = "idle"
    /\ \/ store.set # {} /\ ~store.bad
          /\ store' = Damaged(store) /\ UNCHANGED skuStore
       \/ skuStore.set # {} /\ ~skuStore.bad
          /\ skuStore' = Damaged(skuStore) /\ UNCHANGED store
    /\ UNCHANGED <<artifact, runVars, ledger, emitted, twin, amountVars, sideVars>>

NextDamaged == Next \/ Damage

SpecDamaged == Init /\ [][NextDamaged]_vars

(***************************************************************************)
(* Two runs from the same stores: once a run has ended ok, the stores are  *)
(* put back as that run found them and the same data rows, in any order,   *)
(* are parsed again; twin.out keeps what the first of the two runs saved.  *)
(***************************************************************************)
Count(rs, r) == Cardinality({i \in DOMAIN rs : rs[i] = r})
Reorderings(rs) ==
    {qs \in [1..Len(rs) -> RowIds] : \A r \in RowIds : Count(qs, r) = Count(rs, r)}

Rerun ==
    /\ pc = "done"
    /\ result = "ok"
    /\ ~twin.on
    /\ \E rs \in Reorderings(input.rows) :
          Begin([hdr |-> input.hdr, rows |-> rs], startStore, startSku)
    /\ store' = startStore
    /\ skuStore' = startSku
    /\ twin' = [on |-> TRUE, out |-> artifact]
    /\ repeat' = FALSE
    /\ UNCHANGED <<ledger, emitted, amountVars, sideVars>>

NextTwin == Next \/ Rerun

SpecTwin == Init /\ [][NextTwin]_vars

(***************************************************************************)
(* What the rows folded by the current run add up to.                      *)
(***************************************************************************)
Finished == pc = "done" /\ result = "ok"

\* The rows the loop folded, in order, as decoded.
RECURSIVE FoldedOf(_)
FoldedOf(ex) ==
    IF ex = <<>> THEN <<>>
    ELSE (IF ex[1].folded THEN <<Decode(ex[1].row)>> ELSE <<>>) \o FoldedOf(Tail(ex))

KeysOf(ds, variant) == {ds[i].key : i \in {j \in DOMAIN ds : ds[j].variant = variant}}

RECURSIVE SumQt(_, _)
SumQt(ds, k) ==
    IF ds = <<>> THEN 0
    ELSE (IF ds[1].variant = "WithSku" /\ ds[1].key = k THEN ds[1].qt ELSE 0)
             + SumQt(Tail(ds), k)

RECURSIVE SumCents(_, _)
SumCents(ds, k) ==
    IF ds = <<>> THEN 0
    ELSE (IF ds[1].variant = "Adjustment" /\ ds[1].key = k THEN ds[1].cents ELSE 0)
             + SumCents(Tail(ds), k)

RowsEqual(out, sale) == {i \in DOMAIN out : out[i] = sale}

(***************************************************************************)
(* C1.                                                                     *)
(***************************************************************************)
\* C1: every data row the loop has met was folded if and only if its
\* fingerprint was not in Memory when the row was met.
C1_FoldedIffUnknown ==
    \A i \in DOMAIN examined : examined[i].folded <=> ~examined[i].known

(***************************************************************************)
(* C2.                                                                     *)
(***************************************************************************)
\* C2: a run that parses again the report of the run before it, which ended
\* ok and persisted Memory, folds nothing: both maps stay empty and what it
\* saves holds no row with a quantity or an amount other than 0.
C2_SecondRunFoldsNothing ==
    repeat =>
        /\ DOMAIN adjustmut_map = {}
        /\ DOMAIN with_sku_map = {}
        /\ \A i \in DOMAIN artifact :
              artifact[i].quantity = 0 /\ artifact[i].cents = 0

(***************************************************************************)
(* C3.                                                                     *)
(***************************************************************************)
\* C3: within a run "memory" is written only once output.xlsx has been
\* saved, and at most once; a run that ends without having saved
\* output.xlsx leaves the fingerprints of "memory" as it found them.
C3_PersistAfterSink ==
    /\ recWrites > 0 => outWritten
    /\ recWrites <= 1
    /\ (pc = "done" /\ ~outWritten) => store.set = startStore.set

(***************************************************************************)
(* C4.                                                                     *)
(***************************************************************************)
\* C4: every fingerprint in "memory" is that of a row folded into an
\* artifact that was saved.
C4_StoredOnlyIfEmitted == store.set \subseteq emitted

(***************************************************************************)
(* C5.                                                                     *)
(***************************************************************************)
ExpectedWithSku(ds, k) ==
    [kind |-> k.kind, sku |-> k.sku, description |-> k.description,
     quantity |-> SumQt(ds, k), cents |-> k.cents * SumQt(ds, k)]

\* C5: when a run has saved its output, every Identified key (kind, sku,
\* description, unit cents) among the rows it folded has exactly one row in
\* the output, whose quantity is the sum of the quantities of the folded
\* rows with that key and whose cents are the unit cents times that sum; and
\* the output holds no other identified row.
C5_IdentifiedExact ==
    Finished =>
        LET ds == FoldedOf(examined)
            keys == KeysOf(ds, "WithSku")
        IN  /\ \A k \in keys :
                  Cardinality(RowsEqual(artifact, ExpectedWithSku(ds, k)))
                      = Cardinality({j \in keys :
                            ExpectedWithSku(ds, j) = ExpectedWithSku(ds, k)})
            /\ Cardinality({i \in DOMAIN artifact : artifact[i].sku # "FBATF"})
                  = Cardinality(keys)

\* Rows 1 and 2 (quantities 3 and 5 at 100 cents a unit) were both folded
\* and the saved output holds their one row: quantity 8, 800 cents.
C5_Witness ==
    /\ Finished
    /\ \E i, j \in DOMAIN examined :
          /\ examined[i].row = 1 /\ examined[i].folded
          /\ examined[j].row = 2 /\ examined[j].folded
    /\ \E i \in DOMAIN artifact :
          artifact[i] = [kind |-> "Order", sku |-> "A1", description |-> "Widget",
                         quantity |-> 8, cents |-> 800]

(***************************************************************************)
(* C6.                                                                     *)
(***************************************************************************)
\* C6: when a run has saved its output, every Adjustment key (kind,
\* description) among the rows it folded has exactly one row in the output,
\* whose cents are the sum of the signed cents of all the folded rows with
\* that key, the first one included, whatever their quantity fields.
C6_AdjustmentSum ==
    Finished =>
        LET ds == FoldedOf(examined)
        IN  \A k \in KeysOf(ds, "Adjustment") :
               /\ Cardinality({i \in DOMAIN artifact :
                      /\ artifact[i].sku = "FBATF"
                      /\ artifact[i].kind = k.kind
                      /\ artifact[i].description = k.description}) = 1
               /\ \E i \in DOMAIN artifact :
                      /\ artifact[i].sku = "FBATF"
                      /\ artifact[i].kind = k.kind
                      /\ artifact[i].description = k.description
                      /\ artifact[i].cents = SumCents(ds, k)

(***************************************************************************)
(* C7.                                                                     *)
(***************************************************************************)
\* C7: when a run has saved its output, every Adjustment key with
\* accumulated cents t has exactly one row in the output, with quantity 1
\* when t >= 0 and -1 when t < 0, cents t, and the sentinel "FBATF" for its
\* sku.
C7_AdjustmentFinal ==
    Finished =>
        \A k \in DOMAIN adjustmut_map :
            LET t == adjustmut_map[k]
                mine == {i \in DOMAIN artifact :
                            /\ artifact[i].kind = k.kind
                            /\ artifact[i].description = k.description
                            /\ artifact[i].sku = "FBATF"}
            IN  /\ Cardinality(mine) = 1
                /\ \A i \in mine :
                      /\ artifact[i].cents = t
                      /\ artifact[i].quantity = IF t >= 0 THEN 1 ELSE 0 - 1

\* An adjustment key with a negative total has been finalized: its row
\* carries the sentinel, quantity -1 and the total.
C7_Witness ==
    /\ Finished
    /\ \E k \in DOMAIN adjustmut_map :
          /\ adjustmut_map[k] < 0
          /\ \E i \in DOMAIN artifact :
                artifact[i] = [kind |-> k.kind, sku |-> "FBATF",
                               description |-> k.description,
                               quantity |-> 0 - 1, cents |-> adjustmut_map[k]]

TestAmounts ==
    {<<"1", ".", "0", "0">>, <<"1", ".", "0">>, <<"1">>,
     <<"1", ",", "3", "4", "5", ".", "3">>, <<"0", ".", "3", "0">>,
     <<"0", ".", "3", "0", "0">>}

Texts == UNION {[1..n -> Chars] : n \in 0..MaxLen} \cup TestAmounts

InitAmount ==
    /\ InitRun
    /\ InitUnitOff
    /\ InitBucketOff
    /\ text \in Texts
    /\ stage = "text"
    /\ parsed = Err
    /\ dollars = <<>>
    /\ reparsed = Err

ParseAmount ==
    /\ stage = "text"
    /\ parsed' = handle_punct(text)
    /\ stage' = "parsed"
    /\ UNCHANGED <<diskVars, runVars, ledger, emitted, twin, sideVars, text, dollars, reparsed>>

FormatAmount ==
    /\ stage = "parsed"
    /\ parsed.ok
    /\ dollars' = cents_to_dollars(parsed.val)
    /\ stage' = "dollars"
    /\ UNCHANGED <<diskVars, runVars, ledger, emitted, twin, sideVars, text, parsed, reparsed>>

ReparseAmount ==
    /\ stage = "dollars"
    /\ reparsed' = handle_punct(dollars)
    /\ stage' = "reparsed"
    /\ UNCHANGED <<diskVars, runVars, ledger, emitted, twin, sideVars, text, parsed, dollars>>

NextAmount == ParseAmount \/ FormatAmount \/ ReparseAmount

SpecAmount == InitAmount /\ [][NextAmount]_vars

(***************************************************************************)
(* Unit cents on their own: a decoded total and quantity, any two i64, are *)
(* divided the way lib.rs does it and then the way main.rs does it.        *)
(***************************************************************************)
UnitQuantities == (0 - MaxQty)..MaxQty \cup {I64Min, I64Max}
UnitTotals == (0 - MaxQty * MaxQty)..(MaxQty * MaxQty)
                  \cup {I64Min, I64Min + 1, 0 - 250, 250, I64Max}

InitUnit ==
    /\ InitRun
    /\ InitAmountOff
    /\ InitBucketOff
    /\ unitIn \in [total : UnitTotals, quantity : UnitQuantities]
    /\ unitStage = "decoded"
    /\ unitLib = 0
    /\ unitMain = [panic |-> FALSE, val |-> 0]

\* lib.rs 261
UnitLib ==
    /\ unitStage = "decoded"
    /\ unitLib' = CheckedDivOr(unitIn.total, unitIn.quantity)
    /\ unitStage' = "lib"
    /\ UNCHANGED <<diskVars, runVars, ledger, emitted, twin, amountVars,
                   bucketVars, unitIn, unitMain>>

\* main.rs 74-80
UnitMain ==
    /\ unitStage = "lib"
    /\ unitMain' = unit_cents(unitIn.total, unitIn.quantity)
    /\ unitStage' = "main"
    /\ UNCHANGED <<diskVars, runVars, ledger, emitted, twin, amountVars,
                   bucketVars, unitIn, unitLib>>

NextUnit == UnitLib \/ UnitMain

SpecUnit == InitUnit /\ [][NextUnit]_vars

(***************************************************************************)
(* parse_report, main.rs 208-251, over one report.                         *)
(***************************************************************************)
\* RefSale::total_cents (main.rs 60-64)
RefSale_total_cents(raw) == ParseI64(StripPunct(raw.total))

\* RefSale::quantity (main.rs 66-72)
RefSale_quantity(raw) ==
    IF raw.quantity # <<>> THEN ParseI64(raw.quantity) ELSE Ok(0)

\* RefSale::unit_cents (main.rs 74-80), from the fields' texts.  The totals
\* of the rows are far from i64::MIN, so the division cannot overflow here.
RefSale_unit_cents(raw) ==
    LET q == RefSale_quantity(raw)
        t == RefSale_total_cents(raw)
    IN  IF ~q.ok \/ ~t.ok THEN Err
        ELSE Ok(unit_cents(t.val, q.val).val)

\* The loop of Bucket::add (main.rs 166-189): the first sale that agrees in
\* sku, kind, description and unit cents takes the quantity, else a new
\* sale is pushed.
AddSale(sales, r) ==
    LET raw == RowData(r)
        u == RefSale_unit_cents(raw).val
        q == RefSale_quantity(raw).val
        hits == {i \in DOMAIN sales :
                    /\ sales[i].sku = raw.sku
                    /\ sales[i].kind = raw.kind
                    /\ sales[i].description = raw.description
                    /\ sales[i].unit_cents = u}
    IN  IF hits = {}
        THEN Append(sales, [sku |-> raw.sku, unit_cents |-> u, quantity |-> q,
                            description |-> raw.description, kind |-> raw.kind])
        ELSE LET h == CHOOSE i \in hits : \A j \in hits : i <= j
             IN  [sales EXCEPT ![h].quantity = @ + q]

\* Bucket::set_newest (main.rs 156-161)
set_newest(b, date) ==
    IF ~b.seen THEN [b EXCEPT !.newest = date, !.seen = TRUE] ELSE b

\* Bucket::set_oldest (main.rs 152-154)
set_oldest(b, date) == [b EXCEPT !.oldest = date]

\* The rows Bucket::write serializes (main.rs 140-145): unit_cents becomes
\* the total unless the quantity is 0, and is rendered in dollars.
WrittenSales(sales) ==
    [i \in DOMAIN sales |->
        [sku |-> sales[i].sku,
         unit_cents |-> cents_to_dollars(IF sales[i].quantity # 0
                                         THEN sales[i].unit_cents * sales[i].quantity
                                         ELSE sales[i].unit_cents),
         quantity |-> sales[i].quantity,
         description |-> sales[i].description,
         kind |-> sales[i].kind]]

BucketRowSeqs == UNION {[1..n -> BucketRowIds] : n \in 0..MaxRows}
Reports == {[hdr |-> FALSE, rows |-> <<>>]}
               \cup {[hdr |-> TRUE, rows |-> rs] : rs \in BucketRowSeqs}

InitBucket ==
    /\ InitRun
    /\ InitAmountOff
    /\ InitUnitOff
    /\ report \in Reports
    /\ header = FALSE
    /\ pos = 1
    /\ bucket = EmptyBucket
    /\ ppc = "loop"
    /\ presult = "running"
    /\ tsv = <<>>
    /\ log = <<>>

\* Lines 225-231: the first pass of the loop takes the header row, or bails
\* when the preamble is all there is.
TakeHeader ==
    /\ ppc = "loop"
    /\ ~header
    /\ IF report.hdr
       THEN header' = TRUE /\ UNCHANGED <<ppc, presult>>
       ELSE ppc' = "done" /\ presult' = "err" /\ UNCHANGED header
    /\ UNCHANGED <<diskVars, runVars, ledger, emitted, twin, amountVars, unitVars,
                   report, pos, bucket, tsv, log>>

\* Lines 232-239: a pass of the loop that finds a record.
AddRecord ==
    /\ ppc = "loop"
    /\ header
    /\ pos <= Len(report.rows)
    /\ LET r == report.rows[pos]
           date == DateOf(r)
           b1 == set_oldest(bucket, date)
       IN  IF ~RefSale_unit_cents(RowData(r)).ok
           THEN \* bucket.add(&sale)? returns the error
                /\ bucket' = b1
                /\ ppc' = "done"
                /\ presult' = "err"
                /\ UNCHANGED pos
           ELSE /\ bucket' = set_oldest(
                       set_newest([b1 EXCEPT !.sales = AddSale(b1.sales, r)], date),
                       date)
                /\ pos' = pos + 1
                /\ UNCHANGED <<ppc, presult>>
    /\ UNCHANGED <<diskVars, runVars, ledger, emitted, twin, amountVars, unitVars,
                   report, header, tsv, log>>

\* Lines 240-248: no record is left.  The three assertions are evaluated
\* and then Bucket::write runs: creating the tsv can fail (an error), and
\* opening memory.csv is unwrapped (a panic) after the tsv was written.
EndOfFile ==
    /\ ppc = "loop"
    /\ header
    /\ pos > Len(report.rows)
    /\ ppc' = "done"
    /\ IF ~bucket.seen \/ bucket.oldest = None \/ bucket.newest = None
       THEN presult' = "assert" /\ UNCHANGED <<tsv, log>>
       ELSE \/ presult' = "err" /\ UNCHANGED <<tsv, log>>
            \/ /\ presult' = "panic"
               /\ tsv' = WrittenSales(bucket.sales)
               /\ UNCHANGED log
            \/ /\ presult' = "ok"
               /\ tsv' = WrittenSales(bucket.sales)
               /\ log' = Append(log, <<bucket.oldest, bucket.newest>>)
    /\ UNCHANGED <<diskVars, runVars, ledger, emitted, twin, amountVars, unitVars,
                   report, header, pos, bucket>>

NextBucket == TakeHeader \/ AddRecord \/ EndOfFile

SpecBucket == InitBucket /\ [][NextBucket]_vars

(***************************************************************************)
(* C9.                                                                     *)
(***************************************************************************)
IsPunct(c) == c \in {".", ","}
NotPunct(c) == ~IsPunct(c)
DotsOf(t) == {i \in DOMAIN t : t[i] = "."}
MinOf(S) == CHOOSE x \in S : \A y \in S : x <= y
MaxOf(S) == CHOOSE x \in S : \A y \in S : x >= y
\* The integer left when every '.' and ',' is taken out of the text.
Unpunctuated(t) == ParseI64(SelectSeq(t, NotPunct))
Scaled(t, d) ==
    IF d \notin {1, 2} \/ ~Unpunctuated(t).ok THEN Err
    ELSE Ok(Unpunctuated(t).val * (IF d = 1 THEN 10 ELSE 1))
\* Characters after the last '.'.
AfterLastDot(t) == Len(t) - MaxOf(DotsOf(t))
\* Characters between the first '.' and the next '.' or the end.
AfterFirstDot(t) ==
    LET p == MinOf(DotsOf(t))
        later == {i \in DotsOf(t) : i > p}
    IN  (IF later = {} THEN Len(t) + 1 ELSE MinOf(later)) - p - 1
Parsed == stage \in {"parsed", "dollars", "reparsed"}

\* C9 as claimed: the scale of an amount is read from the number d of
\* characters after the LAST '.': times 10 for d = 1, times 1 for d = 2,
\* times 100 without decimals, failure for any other d.  (Texts that end in
\* a '.' and texts that leave no integer are left out: the claim does not
\* say what they give.)
C9_ScaleFromLastDot ==
    (Parsed /\ Unpunctuated(text).ok /\ (text = <<>> \/ text[Len(text)] # "."))
        => parsed = IF DotsOf(text) = {} THEN Ok(Unpunctuated(text).val * 100)
                    ELSE Scaled(text, AfterLastDot(text))

\* C9 as amended: the scale of an amount is read from the number d of
\* characters between the FIRST '.' and the next '.' (or the end): times 10
\* for d = 1, times 1 for d = 2, failure for any other d, d = 0 included;
\* a text without '.' is taken times 100; and the call fails when what is
\* left without '.' and ',' is not an integer.  The amounts of the test give
\* 100, 100, 100, 134530, 30 and a failure.
C9_ScaleFromFirstDot ==
    Parsed =>
        /\ parsed = IF DotsOf(text) = {}
                    THEN (IF Unpunctuated(text).ok
                          THEN Ok(Unpunctuated(text).val * 100) ELSE Err)
                    ELSE Scaled(text, AfterFirstDot(text))
        /\ text \in {<<"1", ".", "0", "0">>, <<"1", ".", "0">>, <<"1">>}
              => parsed = Ok(100)
        /\ text = <<"1", ",", "3", "4", "5", ".", "3">> => parsed = Ok(134530)
        /\ text = <<"0", ".", "3", "0">> => parsed = Ok(30)
        /\ text = <<"0", ".", "3", "0", "0">> => ~parsed.ok

\* An amount with two dots has been parsed: ".3.5" reads its scale from the
\* one character between the dots and gives 350.
C9_Witness ==
    /\ Parsed
    /\ text = <<".", "3", ".", "5">>
    /\ parsed = Ok(350)

(***************************************************************************)
(* C10.                                                                    *)
(***************************************************************************)
\* C10: for every amount text that handle_punct accepts, rendering the cents
\* with cents_to_dollars and parsing the rendering again gives the same
\* cents.
C10_RoundTrip == stage = "reparsed" => reparsed = Ok(parsed.val)

\* The round trip of 5 cents, whose rendering "0.05" needs its padding zero,
\* and the rendering of a negative amount have been made.
C10_Witness ==
    /\ stage = "reparsed"
    /\ parsed.val = 5
    /\ dollars = <<"0", ".", "0", "5">>
    /\ reparsed = Ok(5)

(***************************************************************************)
(* C11.                                                                    *)
(***************************************************************************)
\* The quotient of two integers truncated toward zero, as a number.
Quotient(a, b) ==
    IF (a < 0) = (b < 0) THEN Abs(a) \div Abs(b) ELSE 0 - (Abs(a) \div Abs(b))

\* C11: the unit cents of a decoded row are its total cents divided by its
\* quantity when the quantity is not 0 and the total cents themselves when
\* it is 0, and computing them never panics, whatever the quantity: so in
\* WithSku::try_from and so in RefSale::unit_cents.
C11_UnitCents ==
    LET t == unitIn.total
        q == unitIn.quantity
        expected == IF q = 0 THEN t ELSE Quotient(t, q)
    IN  /\ unitStage \in {"lib", "main"} => unitLib = expected
        /\ unitStage = "main" => ~unitMain.panic /\ unitMain.val = expected

(***************************************************************************)
(* C12.                                                                    *)
(***************************************************************************)
RECURSIVE SumOut(_)
SumOut(out) == IF out = <<>> THEN 0 ELSE out[1].cents + SumOut(Tail(out))

RECURSIVE SumIn(_)
SumIn(ds) == IF ds = <<>> THEN 0 ELSE ds[1].cents + SumIn(Tail(ds))

\* C12: when a run has saved its output, the cents of the output rows add
\* up to the parsed total cents of the rows the run folded; and every
\* identified row it folded, of total cents T and quantity q, has
\* unit cents * q = T.
C12_NoCentLost ==
    Finished =>
        LET ds == FoldedOf(examined)
        IN  /\ SumOut(artifact) = SumIn(ds)
            /\ \A i \in DOMAIN ds :
                   ds[i].variant = "WithSku" => ds[i].key.cents * ds[i].qt = ds[i].cents

(***************************************************************************)
(* C13.                                                                    *)
(***************************************************************************)
HasSku(r) == RowData(r).sku # ""

\* C13: the rows a run has folded are split by their sku field alone: the
\* keys of adjustmut_map are the (kind, description) of the folded rows
\* whose sku is absent or empty, the keys of with_sku_map carry the (kind,
\* sku, description) of the folded rows whose sku is present, and no folded
\* row has left a key in the other map.
C13_Classification ==
    /\ DOMAIN adjustmut_map =
           {[kind |-> RowData(r).kind, description |-> RowData(r).description] :
                r \in {x \in FoldedRows : ~HasSku(x)}}
    /\ {[kind |-> k.kind, sku |-> k.sku, description |-> k.description] :
                k \in DOMAIN with_sku_map} =
           {[kind |-> RowData(r).kind, sku |-> RowData(r).sku,
             description |-> RowData(r).description] :
                r \in {x \in FoldedRows : HasSku(x)}}

\* A run has folded row 5, which has a sku and no quantity, and row 3, which
\* has neither: each has its key in its own map and the output was saved.
C13_Witness ==
    /\ Finished
    /\ FoldedRows = {3, 5}
    /\ Cardinality(DOMAIN adjustmut_map) = 1
    /\ Cardinality(DOMAIN with_sku_map) = 1

(***************************************************************************)
(* C14.                                                                    *)
(***************************************************************************)
\* C14: a run that finds no "memory" starts with an empty Memory and goes
\* on; a run that finds a store it cannot deserialize ends at once with an
\* error: it never goes on as if the store were empty.
C14_LoadPolicy ==
    /\ (pc = "rows" /\ idx = 1 /\ startStore = EmptyStore) => recmem = {}
    /\ (pc # "idle" /\ (startStore.bad \/ startSku.bad))
           => (pc = "done" /\ result = "err")

(***************************************************************************)
(* C15.                                                                    *)
(***************************************************************************)
\* A row whose amount or quantity the decoding rejects.
Malformed(r) ==
    \/ ~handle_punct(RowData(r).total).ok
    \/ ~deserialize_quantity(RowData(r).quantity).ok

\* The run has returned the error of a row's decoding.
DecodeFailed == pc = "done" /\ result = "err" /\ idx <= Len(input.rows)

\* C15: when the decoding of a data row fails the run returns the error at
\* once, that row being the last it has met; and a run that ended so has
\* written no output and has left "memory" and "sku_memory" as it found
\* them, whatever rows came before the failing one.
C15_DecodeAllOrNothing ==
    /\ \A i \in DOMAIN examined :
           (examined[i].known /\ Malformed(examined[i].row))
               => (i = Len(examined) /\ DecodeFailed)
    /\ DecodeFailed =>
           /\ ~outWritten
           /\ artifact = <<>>
           /\ recWrites = 0
           /\ store = startStore
           /\ skuStore = startSku

\* A run has folded a row and then met a row it could not decode: it ended
\* with the error, and the store still holds what it held.
C15_Witness ==
    /\ DecodeFailed
    /\ Len(examined) = 2
    /\ examined[1].folded
    /\ Malformed(examined[2].row)
    /\ store = startStore
    /\ store.set # {}

(***************************************************************************)
(* C16.                                                                    *)
(***************************************************************************)
\* C16: the Memory a run loads is exactly the set of fingerprints that was
\* written to the store: none is missing and none is added; and so for the
\* sku store.
C16_StoreRoundTrip ==
    (pc = "rows" /\ examined = <<>>) =>
        /\ recmem = startStore.set
        /\ skumem = startSku.set

(***************************************************************************)
(* C17.                                                                    *)
(***************************************************************************)
\* C17: a run over a report with no row after the preamble ends with an
\* error; it does not write "memory" and it saves no output.
C17_MissingHeader ==
    (pc # "idle" /\ ~input.hdr) =>
        /\ recWrites = 0
        /\ ~outWritten
        /\ result # "ok"

(***************************************************************************)
(* C18.                                                                    *)
(***************************************************************************)
\* C18: the output a run saves is one sequence holding a row for every key
\* of either map, and of any two adjacent rows the earlier has the lesser
\* kind, or the same kind and a description that is not greater.
C18_OutputSorted ==
    /\ \A i \in 1..(Len(artifact) - 1) :
           \/ StrRank(artifact[i].kind) < StrRank(artifact[i + 1].kind)
           \/ /\ artifact[i].kind = artifact[i + 1].kind
              /\ StrRank(artifact[i].description)
                     <= StrRank(artifact[i + 1].description)
    /\ Finished =>
           Len(artifact) = Cardinality(DOMAIN adjustmut_map)
                              + Cardinality(DOMAIN with_sku_map)

\* A saved output of two rows, an adjustment of kind Order and an identified
\* row of kind Refund, in that order.
C18_Witness ==
    /\ Finished
    /\ Len(artifact) = 2
    /\ artifact[1].kind = "Order" /\ artifact[1].sku = "FBATF"
    /\ artifact[1].description = "Widget"
    /\ artifact[2].kind = "Refund" /\ artifact[2].sku = "A1"
    /\ artifact[2].description = "Gadget"

(***************************************************************************)
(* C19.                                                                    *)
(***************************************************************************)
\* C19: the fingerprints a run has added to its Memory are fingerprints of
\* rows it has folded: looking a row up adds nothing, and neither does a
\* row that is skipped or fails to decode.
C19_MemorizeAfterFold ==
    pc # "idle" =>
        (recmem \ MemoryNew(startStore)) \subseteq {Fingerprint(r) : r \in FoldedRows}

(***************************************************************************)
(* C20.                                                                    *)
(***************************************************************************)
\* C20: whenever parse_report reaches the end of the input after the
\* header row, a report with a header and no data row included, its three
\* assertions hold; and when the run has passed them, newest is the
\* date/time of the first data row and oldest that of the last.
C20_EndOfFileSanity ==
    /\ presult # "assert"
    /\ (ppc = "done" /\ presult \in {"ok", "panic"}) =>
           /\ bucket.seen
           /\ report.rows # <<>>
           /\ bucket.newest = DateOf(report.rows[1])
           /\ bucket.oldest = DateOf(report.rows[Len(report.rows)])

=============================================================================
